---- MODULE Spec2Model ----
(***************************************************************************)
(* InViewport (src/src/index.tsx): a React Native class component that     *)
(* polls its own on-screen rectangle with an interval timer, decides       *)
(* whether it is visible in the window and reports changes of that         *)
(* decision through a debounced onChange callback.                         *)
(*                                                                         *)
(* Numbers.  Pixel values are integers.  The threshold prop is held in     *)
(* hundredths (70 stands for 0.7), so `threshold * 100` is the held        *)
(* number, and `(visibleHeight / rectHeight) * 100 >= visiblePercentage`   *)
(* is decided by cross-multiplication, with JavaScript's outcomes for a    *)
(* division by zero (NaN, Infinity, -Infinity) spelled out.                *)
(*                                                                         *)
(* Time.  The polling delay is a free prop and window changes arrive at    *)
(* any moment, so timer ticks, measurement callbacks, window changes and   *)
(* the expiry of the 200 ms debounce are interleaved without restriction.  *)
(***************************************************************************)
EXTENDS Integers, Sequences, FiniteSets

VARIABLES
    phase,        \* "constructed", "mounted" or "unmounted" (myview.current is set while mounted)
    disabled,     \* props.disabled: "unset", "false" or "true"
    threshold,    \* props.threshold: <<>> when omitted, <<h>> for h hundredths
    rect,         \* this.state: rectTop, rectBottom, rectHeight, rectWidth
    interval,     \* this.interval: 0 for null, else the id setInterval returned last
    lastValue,    \* this.lastValue: "null", "true" or "false"
    subscription, \* this.subscription is not null
    pending,      \* the debounced handleVisibilityChange: "none", or the argument of the call waiting
    timers,       \* host: ids of the interval timers that are active
    listeners,    \* host: Dimensions 'change' listeners registered and not removed
    inflight,     \* host: measure() requests whose callback has not run yet
    hostRect,     \* host: the container's layout (pageX, pageY, width, height)
    window,       \* host: Dimensions.get('window')
    calls,        \* history: the arguments of the last MaxCalls onChange invocations, in order
    callTurn,     \* history: 0 before the first onChange invocation, then alternating 1, 2
    transitions,  \* history: evaluations that changed lastValue, counted up to MaxCalls
    measured,     \* history: a measure callback has set this.state
    everReset,    \* history: componentDidUpdate has reset lastValue
    reenabled,    \* history: disabled went from true to not true, and no evaluation ran since
    ev            \* history: the last run of isInViewPort (what it read and what it decided)

vars == <<phase, disabled, threshold, rect, interval, lastValue, subscription,
          pending, timers, listeners, inflight, hostRect, window, calls,
          callTurn, transitions, measured, everReset, reenabled, ev>>

----------------------------------------------------------------------------
(* Bounds of the model *)

MaxTimers == 2      \* interval timers told apart
MaxInFlight == 1    \* measure() requests waiting for their callback
MaxCalls == 2       \* onChange invocations remembered
MaxWin == 3         \* window sides range over MaxWin-1 .. MaxWin
MaxSize == 2        \* measured width and height range over 0 .. MaxSize
MaxOff == 2         \* measured pageX and pageY range over -MaxOff .. MaxWin+1

----------------------------------------------------------------------------
(* Values *)

Null == "null"

Str(b) == IF b THEN "true" ELSE "false"

Min(a, b) == IF a <= b THEN a ELSE b

Max(a, b) == IF a >= b THEN a ELSE b

Falsy(d) == d # "true"

ZeroState == [rectTop |-> 0, rectBottom |-> 0, rectHeight |-> 0, rectWidth |-> 0]

\* the setState of the measure callback
MeasuredState(m) ==
    [rectTop |-> m.pageY,
     rectBottom |-> m.pageY + m.height,
     rectHeight |-> m.height,
     rectWidth |-> m.pageX + m.width]

\* ev before the first run of isInViewPort (n = 0); n then alternates 1, 2
NoEval ==
    [n |-> 0, first |-> FALSE, measured |-> FALSE, visible |-> "false", error |-> FALSE,
     required |-> 100]

----------------------------------------------------------------------------
(* isInViewPort: the threshold *)

\* `if (this.props?.threshold)`: the prop is given and is not 0
ThresholdTruthy(t) == t # <<>> /\ t[1] # 0

\* `threshold <= 0 || threshold > 1`, on hundredths
ThresholdOutOfRange(h) == h <= 0 \/ h > 100

\* console.error is called
LogsError(t) == ThresholdTruthy(t) /\ ThresholdOutOfRange(t[1])

\* the local visiblePercentage after the validation
visiblePercentage(t) ==
    IF ThresholdTruthy(t) /\ ~ThresholdOutOfRange(t[1]) THEN t[1] ELSE 100

----------------------------------------------------------------------------
(* isInViewPort: the geometry *)

visibleHeight(st, win) == Min(st.rectBottom, win.height) - Max(st.rectTop, 0)

\* mutant: a rectangle of height 0 counts as wholly visible
VisibilityZeroHeightPasses(vh, h, pct) ==
    IF h = 0 THEN vh >= 0
    ELSE IF h > 0 THEN vh * 100 >= pct * h
    ELSE vh * 100 <= pct * h

\* mutant: the comparison is strict
VisibilityAbove(vh, h, pct) ==
    IF h = 0 THEN vh > 0
    ELSE IF h > 0 THEN vh * 100 > pct * h
    ELSE vh * 100 < pct * h

\* `(visibleHeight / rectHeight) * 100 >= pct`.  A zero rectHeight divides to
\* NaN (0/0), Infinity or -Infinity; only Infinity passes the comparison.
VisibilityAtLeast(vh, h, pct) ==
    IF h = 0 THEN vh > 0
    ELSE IF h > 0 THEN vh * 100 >= pct * h
    ELSE vh * 100 <= pct * h

\* mutant: the right edge must lie strictly inside the window
isVisibleStrictWidth(st, win, t) ==
    /\ st.rectBottom # 0
    /\ VisibilityAtLeast(visibleHeight(st, win), st.rectHeight, visiblePercentage(t))
    /\ st.rectWidth > 0
    /\ st.rectWidth < win.width

isVisible(st, win, t) ==
    /\ st.rectBottom # 0
    /\ VisibilityAtLeast(visibleHeight(st, win), st.rectHeight, visiblePercentage(t))
    /\ st.rectWidth > 0
    /\ st.rectWidth <= win.width

\* mutant: every evaluation counts as a change
AlwaysChanged(last, v) == TRUE

\* `this.lastValue !== isVisible`
Changed(last, v) == last # v

\* lodash debounce, trailing edge: a call replaces the waiting argument and
\* restarts the wait
Debounced(waiting, v) == v

\* mutant: the argument keeps waiting after the wrapped function ran
StillWaiting(waiting) == waiting

\* lodash debounce: once the wrapped function has run, nothing is waiting
Invoked(waiting) == "none"

\* props.onChange(v) is called: the history keeps the last MaxCalls arguments
Recorded(cs, v) == IF Len(cs) < MaxCalls THEN Append(cs, v) ELSE Append(Tail(cs), v)

\* isInViewPort, reading this.state and the window `win`
isInViewPort(win) ==
    LET v == Str(isVisible(rect, win, threshold)) IN
    /\ IF Changed(lastValue, v)
       THEN /\ lastValue' = v
            /\ pending' = Debounced(pending, v)
            /\ transitions' = Min(transitions + 1, MaxCalls)
       ELSE UNCHANGED <<lastValue, pending, transitions>>
    /\ ev' = [n |-> IF ev.n = 1 THEN 2 ELSE 1, first |-> reenabled, measured |-> measured,
              visible |-> v, error |-> LogsError(threshold),
              required |-> visiblePercentage(threshold)]
    /\ reenabled' = FALSE

----------------------------------------------------------------------------
(* startWatching / stopWatching *)

\* the id setInterval returns: one that names no active timer.  Ids are names
\* only, so the least id without an active timer is taken (the id of a
\* cleared timer names the new one); when all MaxTimers ids name active
\* timers, the new timer is not told apart from the one this.interval named
\* (both tick, one of them can be cleared).
FreshId(ts, iv) ==
    IF \E i \in 1 .. MaxTimers : i \notin ts
    THEN CHOOSE i \in 1 .. MaxTimers :
             i \notin ts /\ \A j \in 1 .. MaxTimers : j \notin ts => i <= j
    ELSE iv

\* setInterval starts a timer under a fresh id; this.interval is overwritten
\* with it
StartedTimers(ts, iv) == ts \cup {FreshId(ts, iv)}

\* `if (this.interval) clearInterval(this.interval)`; this.interval is kept
StoppedTimers(ts, iv) == IF iv # 0 THEN ts \ {iv} ELSE ts

\* `if (this.subscription) this.subscription.remove()`
RemovedListeners(n, sub) == IF sub THEN 0 ELSE n

\* mutant: re-enabling keeps the recorded visibility
KeptLastValue(prev, d, last) == last

\* componentDidUpdate's effect on this.lastValue
UpdatedLastValue(prev, d, last) ==
    IF prev # d /\ Falsy(d) THEN Null ELSE last

----------------------------------------------------------------------------
(* Inputs *)

Disabled == {"unset", "false", "true"}

Thresholds == {<<>>, <<50>>}

Windows == {[width |-> MaxWin, height |-> MaxWin], [width |-> MaxWin - 1, height |-> MaxWin - 1]}

\* layouts of the container: one that fills the large window (and does not fit
\* the small one), and one below every window
HostRects ==
    {[pageX |-> 0, pageY |-> 0, width |-> MaxWin, height |-> MaxWin],
     [pageX |-> 0, pageY |-> MaxWin + 1, width |-> MaxWin - 1, height |-> 1]}

InitWith(d, t, r, w) ==
    /\ phase = "constructed"
    /\ disabled = d
    /\ threshold = t
    /\ rect = ZeroState
    /\ interval = 0
    /\ lastValue = Null
    /\ subscription = FALSE
    /\ pending = "none"
    /\ timers = {}
    /\ listeners = 0
    /\ inflight = 0
    /\ hostRect = r
    /\ window = w
    /\ calls = <<>>
    /\ callTurn = 0
    /\ transitions = 0
    /\ measured = FALSE
    /\ everReset = FALSE
    /\ reenabled = FALSE
    /\ ev = NoEval

Init == \E d \in Disabled, t \in Thresholds, r \in HostRects, w \in Windows :
            InitWith(d, t, r, w)

----------------------------------------------------------------------------
(* Operations *)

\* componentDidMount
Mount ==
    /\ phase = "constructed"
    /\ phase' = "mounted"
    /\ IF Falsy(disabled)
       THEN /\ timers' = StartedTimers(timers, interval)
            /\ interval' = FreshId(timers, interval)
            /\ isInViewPort(window)
            /\ subscription' = TRUE
            /\ listeners' = listeners + 1
       ELSE UNCHANGED <<timers, interval, lastValue, pending, transitions, ev, reenabled,
                        subscription, listeners>>
    /\ UNCHANGED <<disabled, threshold, rect, inflight, hostRect, window, calls, callTurn, measured,
                   everReset>>

\* the parent renders the component with new props; componentDidUpdate
UpdateProps(d, t) ==
    /\ phase = "mounted"
    /\ <<d, t>> # <<disabled, threshold>>
    /\ disabled' = d
    /\ threshold' = t
    /\ lastValue' = UpdatedLastValue(disabled, d, lastValue)
    /\ everReset' = (everReset \/ (disabled # d /\ Falsy(d)))
    /\ reenabled' = (reenabled \/ (disabled = "true" /\ Falsy(d)))
    /\ IF disabled # d
       THEN IF ~Falsy(d)
            THEN /\ timers' = StoppedTimers(timers, interval)
                 /\ UNCHANGED interval
            ELSE /\ timers' = StartedTimers(timers, interval)
                 /\ interval' = FreshId(timers, interval)
       ELSE UNCHANGED <<timers, interval>>
    /\ UNCHANGED <<phase, rect, subscription, pending, listeners, inflight, hostRect,
                   window, calls, callTurn, transitions, measured, ev>>

\* componentWillUnmount
Unmount ==
    /\ phase = "mounted"
    /\ phase' = "unmounted"
    /\ timers' = StoppedTimers(timers, interval)
    /\ listeners' = RemovedListeners(listeners, subscription)
    /\ UNCHANGED <<disabled, threshold, rect, interval, lastValue, subscription, pending,
                   inflight, hostRect, window, calls, callTurn, transitions, measured, everReset,
                   reenabled, ev>>

\* the callback given to setInterval, for timer id
Tick(id) ==
    /\ id \in timers
    /\ IF phase # "mounted"
       THEN UNCHANGED vars
       ELSE /\ inflight < MaxInFlight
            /\ inflight' = inflight + 1
            /\ isInViewPort(window)
            /\ UNCHANGED <<phase, disabled, threshold, rect, interval, subscription, timers,
                           listeners, hostRect, window, calls, callTurn, measured, everReset>>

\* the host answers a measure() request: the callback calls setState
MeasureDeliver ==
    /\ inflight > 0
    /\ inflight' = inflight - 1
    /\ rect' = IF phase = "mounted" THEN MeasuredState(hostRect) ELSE rect
    /\ measured' = (measured \/ phase = "mounted")
    /\ UNCHANGED <<phase, disabled, threshold, interval, lastValue, subscription, pending,
                   timers, listeners, hostRect, window, calls, callTurn, transitions, everReset,
                   reenabled, ev>>

\* the host lays the container out elsewhere (scrolling)
Scroll(r) ==
    /\ phase = "mounted"
    /\ r # hostRect
    /\ hostRect' = r
    /\ UNCHANGED <<phase, disabled, threshold, rect, interval, lastValue, subscription,
                   pending, timers, listeners, inflight, window, calls, callTurn, transitions,
                   measured, everReset, reenabled, ev>>

\* the window changes; Dimensions notifies the 'change' listeners
Resize(w) ==
    /\ w # window
    /\ window' = w
    /\ IF listeners > 0
       THEN isInViewPort(w)
       ELSE UNCHANGED <<lastValue, pending, transitions, ev, reenabled>>
    /\ UNCHANGED <<phase, disabled, threshold, rect, interval, subscription, timers,
                   listeners, inflight, hostRect, calls, callTurn, measured, everReset>>

\* the debounce wait expires: the wrapped function calls props.onChange
DebounceFire ==
    /\ pending # "none"
    /\ calls' = Recorded(calls, pending)
    /\ callTurn' = IF callTurn = 1 THEN 2 ELSE 1
    /\ pending' = Invoked(pending)
    /\ UNCHANGED <<phase, disabled, threshold, rect, interval, lastValue, subscription,
                   timers, listeners, inflight, hostRect, window, transitions, measured,
                   everReset, reenabled, ev>>

Next ==
    \/ Mount
    \/ \E d \in Disabled, t \in Thresholds : UpdateProps(d, t)
    \/ Unmount
    \/ \E id \in 1 .. MaxTimers : Tick(id)
    \/ MeasureDeliver
    \/ \E r \in HostRects : Scroll(r)
    \/ \E w \in Windows : Resize(w)
    \/ DebounceFire

Spec == Init /\ [][Next]_vars

\* a step in which isInViewPort calls the debounced handler: it does so exactly
\* when it assigns lastValue, and each such call restarts the 200 ms wait
Restarted == lastValue' # lastValue /\ lastValue' # Null

\* the debounce has no maxWait: a waiting invocation is delivered once the
\* wait is no longer restarted; restarted for ever, it is never delivered
DebounceExpires == WF_vars(DebounceFire) \/ []<><<Restarted>>_vars

\* setInterval keeps firing while a timer is active, the host answers every
\* measure() request, and a debounce wait that is left alone expires
Fairness ==
    /\ WF_vars(\E id \in 1 .. MaxTimers : Tick(id))
    /\ WF_vars(MeasureDeliver)
    /\ DebounceExpires

SpecFair == Spec /\ Fairness

----------------------------------------------------------------------------
(* A host that stands still: the props, the layout and the window are drawn *)
(* from grids and stay as drawn; the component is mounted, ticks, receives  *)
(* its measurements, and its debounced callbacks are delivered.             *)

EvalThresholds == {<<>>} \cup {<<h>> : h \in {-50, 0, 1, 50, 70, 100, 101, 150}}

WinSides == (MaxWin - 1) .. MaxWin

Offsets == (0 - MaxOff) .. (MaxWin + 1)

Sizes == 0 .. MaxSize

\* a tall container 70% and 69% inside a window as high as it
TallRects ==
    {[pageX |-> 0, pageY |-> -30, width |-> 50, height |-> 100],
     [pageX |-> 0, pageY |-> -31, width |-> 50, height |-> 100]}

TallWindow == [width |-> 50, height |-> 100]

EvalRects == [pageX : Offsets, pageY : Offsets, width : Sizes, height : Sizes] \cup TallRects

EvalWindows == [width : WinSides, height : WinSides] \cup {TallWindow}

InitEval == \E t \in EvalThresholds, r \in EvalRects, w \in EvalWindows :
                InitWith("unset", t, r, w)

NextEval ==
    \/ Mount
    \/ \E id \in 1 .. MaxTimers : Tick(id)
    \/ MeasureDeliver
    \/ DebounceFire

SpecEval == InitEval /\ [][NextEval]_vars

-----------------------------------------------------------------------------
(* Vocabulary of the properties.  Under SpecEval the layout, the window and *)
(* the threshold stay as drawn, so an evaluation made after a measurement   *)
(* arrived read MeasuredState(hostRect), window and threshold.              *)

\* a run of isInViewPort occurs in the step
EvalStep == ev'.n # ev.n

\* the last run of isInViewPort read a measured rectangle
MeasuredEval == ev.n # 0 /\ ev.measured

Top == hostRect.pageY

Bottom == hostRect.pageY + hostRect.height

Left == hostRect.pageX

Right == hostRect.pageX + hostRect.width

FullyInside == Top >= 0 /\ Bottom <= window.height /\ Left >= 0 /\ Right <= window.width

ZeroOverlap == Bottom <= 0 \/ Top >= window.height \/ Right <= 0 \/ Left >= window.width

InsideHeight == Max(0, Min(Bottom, window.height) - Max(Top, 0))

InsideWidth == Max(0, Min(Right, window.width) - Max(Left, 0))

ValidThreshold == threshold # <<>> /\ threshold[1] > 0 /\ threshold[1] <= 100

LastCall == calls[Len(calls)]

\* props.onChange is invoked in the step
OnChange == callTurn' # callTurn

\* props.onChange(v) is invoked in the step
OnChangeWith(v) == OnChange /\ calls' = Recorded(calls, v)

\* what this.state holds once the host's present rectangle has been stored
HostState ==
    [rectTop |-> Top, rectBottom |-> Bottom, rectHeight |-> hostRect.height,
     rectWidth |-> Right]

\* the visibility predicate on the host's present rectangle
HostVisible == Str(isVisible(HostState, window, threshold))

----------------------------------------------------------------------------
(* C1 *)

\* C1, as claimed: every evaluation whose result differs from lastValue is
\* followed by exactly one onChange invocation carrying that result, so an
\* invocation that is waiting is taken away only by delivering its value; and
\* an evaluation whose result equals lastValue leads to no invocation.
C1_ExactlyOncePerTransition ==
    [][/\ (pending # "none" /\ pending' # pending)
            => (pending' = "none" /\ OnChangeWith(pending))
       /\ (EvalStep /\ ev'.visible = lastValue) => UNCHANGED <<pending, calls, callTurn>>]_vars

\* C1, amended: an evaluation whose result differs from lastValue records the
\* result and leaves one invocation waiting that carries it, replacing the one
\* that was waiting; an evaluation whose result equals lastValue changes
\* neither; onChange is invoked only by the expiry of the wait, once, with
\* the waiting value; nothing else touches the waiting invocation.
C1_AtMostOncePerTransition ==
    [][/\ (EvalStep /\ ev'.visible # lastValue)
            => (lastValue' = ev'.visible /\ pending' = ev'.visible /\ ~OnChange)
       /\ (EvalStep /\ ev'.visible = lastValue) => UNCHANGED <<lastValue, pending, calls, callTurn>>
       /\ OnChange
            => (pending # "none" /\ OnChangeWith(pending) /\ pending' = "none")
       /\ (~EvalStep /\ pending' # pending) => OnChange]_vars

\* two transitions were each delivered, and a later evaluation repeated the
\* last result without leaving an invocation waiting
C1_Witness ==
    /\ Len(calls) = 2
    /\ calls[1] # calls[2]
    /\ pending = "none"
    /\ ev.n # 0 /\ ev.visible = calls[2] /\ lastValue = calls[2]

----------------------------------------------------------------------------
(* C2 *)

\* C2: in a run in which componentDidUpdate has not reset lastValue (the
\* component was not re-enabled), any two consecutive onChange invocations
\* carry different values.
C2_DeliveredValuesAlternate ==
    ~everReset => \A i \in 1 .. Len(calls) - 1 : calls[i] # calls[i + 1]

----------------------------------------------------------------------------
(* C3 *)

\* C3: while the disabled prop is true, onChange is not invoked.
C3_DisabledStopsCallbacks ==
    [][disabled = "true" => ~OnChange]_vars

----------------------------------------------------------------------------
(* C4 *)

\* C4: after componentWillUnmount no interval timer of the component is
\* active and no window-change listener of it is registered.
C4_TeardownReleases ==
    phase = "unmounted" => (timers = {} /\ listeners = 0)

----------------------------------------------------------------------------
(* C5 *)

\* C5: an evaluation with a threshold outside (0,1] logs an error and
\* requires 100%; with a threshold inside (0,1] it logs nothing and requires
\* threshold * 100.
C5_ThresholdValidation ==
    (ev.n # 0 /\ threshold # <<>>)
        => IF threshold[1] <= 0 \/ threshold[1] > 100
           THEN ev.error /\ ev.required = 100
           ELSE ~ev.error /\ ev.required = threshold[1]

----------------------------------------------------------------------------
(* C6 *)

\* C6: when a measured rectangle is classified visible under a valid
\* threshold t, at least the fraction t of its area lies inside the window.
C6_MinimumAreaFraction ==
    (MeasuredEval /\ ValidThreshold /\ ev.visible = "true")
        => InsideWidth * InsideHeight * 100
               >= threshold[1] * hostRect.width * hostRect.height

----------------------------------------------------------------------------
(* C7 *)

----------------------------------------------------------------------------
(* C8 *)

\* C8: a measured rectangle entirely above, below, left of or right of the
\* window is classified not visible, whatever the threshold.
C8_ZeroOverlapNotVisible ==
    (MeasuredEval /\ ZeroOverlap) => ev.visible = "false"

----------------------------------------------------------------------------
(* C9 *)

\* C9, as claimed: with a valid threshold and the right edge within
\* (0, window width], the rectangle is classified visible exactly when
\* visibleHeight * 100 >= threshold * 100 * height.
C9_InclusiveComparison ==
    (MeasuredEval /\ ValidThreshold /\ Right > 0 /\ Right <= window.width)
        => (ev.visible = "true"
              <=> (Min(Bottom, window.height) - Max(Top, 0)) * 100
                      >= threshold[1] * hostRect.height)

\* C9, amended: the same for a rectangle of positive height.
C9_InclusiveComparisonPositiveHeight ==
    (MeasuredEval /\ ValidThreshold /\ Right > 0 /\ Right <= window.width
        /\ hostRect.height > 0)
        => (ev.visible = "true"
              <=> (Min(Bottom, window.height) - Max(Top, 0)) * 100
                      >= threshold[1] * hostRect.height)

\* at threshold 0.7 a rectangle with exactly 70% of its height inside the
\* window was classified visible
C9_Witness ==
    /\ MeasuredEval /\ threshold = <<70>> /\ Right > 0 /\ Right <= window.width
    /\ hostRect.height = 100 /\ InsideHeight = 70
    /\ ev.visible = "true"

\* at threshold 0.7 a rectangle with 69% of its height inside the window was
\* classified not visible
C9_Witness69 ==
    /\ MeasuredEval /\ threshold = <<70>> /\ Right > 0 /\ Right <= window.width
    /\ hostRect.height = 100 /\ InsideHeight = 69
    /\ ev.visible = "false"

----------------------------------------------------------------------------
(* C10 *)

\* C10: when disabled goes from true to not true, lastValue is reset to
\* null and stays null until the next evaluation, and that evaluation
\* records its result and leaves an invocation waiting that carries it.
C10_ReenableResets ==
    [][/\ (phase = "mounted" /\ disabled = "true" /\ disabled' # "true")
            => lastValue' = Null
       /\ reenabled' => lastValue' = Null
       /\ (reenabled /\ EvalStep)
            => (lastValue' = ev'.visible /\ pending' = ev'.visible)]_vars

\* the first evaluation after re-enabling left an invocation waiting whose
\* value equals the one reported last
C10_Witness ==
    /\ ev.first
    /\ Len(calls) > 0
    /\ pending = LastCall
    /\ ev.visible = LastCall

----------------------------------------------------------------------------
(* C11 *)

\* C11: every activation (mounting while not disabled, and disabled going
\* from true to not true after mount) starts a timer, requests a measurement
\* and evaluates, all in the activating step.
C11_ActivationMeasuresAtOnce ==
    [][((phase = "constructed" /\ phase' = "mounted" /\ Falsy(disabled))
          \/ (phase = "mounted" /\ disabled = "true" /\ disabled' # "true"))
            => (/\ timers' # timers
                /\ inflight' = inflight + 1
                /\ EvalStep)]_vars

----------------------------------------------------------------------------
(* C12 *)

\* C12: onChange has not been invoked more often than evaluations changed
\* lastValue, and an evaluation whose result equals lastValue changes neither
\* lastValue nor the waiting invocation.
C12_AtMostOneCallPerTransition ==
    /\ [](Len(calls) <= transitions)
    /\ [][(EvalStep /\ ev'.visible = lastValue)
            => UNCHANGED <<lastValue, pending, transitions>>]_vars

\* two transitions inside one debounce wait led to a single invocation
C12_Witness ==
    /\ transitions = 2
    /\ Len(calls) = 1
    /\ pending = "none"

----------------------------------------------------------------------------
(* C13 *)

\* C13: the visibility evaluated on a tick is the visibility of the
\* rectangle the host has for the container at that tick.
C13_TickReadsItsOwnMeasurement ==
    [][(phase = "mounted" /\ inflight' = inflight + 1)
            => ev'.visible = HostVisible]_vars

----------------------------------------------------------------------------
(* C14 *)

\* C14: the value an onChange invocation carries equals lastValue at the
\* moment of the invocation.
C14_DeliveredValueIsLastValue ==
    [][OnChange => calls'[Len(calls')] = lastValue]_vars

----------------------------------------------------------------------------
(* C15 *)

\* C15: at most one interval timer of the component is active, and none
\* while disabled is true.
C15_AtMostOneTimer ==
    /\ Cardinality(timers) <= 1
    /\ disabled = "true" => timers = {}

----------------------------------------------------------------------------
(* C16 *)

\* C16: after componentWillUnmount onChange is not invoked.
C16_NoCallbackAfterUnmount ==
    [][phase = "unmounted" => ~OnChange]_vars

----------------------------------------------------------------------------
(* C17 *)

\* the value reported last is the visibility of the host's rectangle, and no
\* invocation is waiting
Consistent ==
    /\ pending = "none"
    /\ calls # <<>>
    /\ LastCall = HostVisible

\* C17: when from some point on the component stays mounted and not
\* disabled and the host's rectangle, the window and the threshold no longer
\* change, then eventually the value reported last is the visibility of that
\* rectangle and stays so, with no invocation waiting: onChange is not invoked
\* any more.
C17_EventuallyConsistent ==
    (/\ <>[](phase = "mounted" /\ Falsy(disabled))
     /\ <>[][UNCHANGED <<hostRect, window, threshold>>]_vars)
        => <>[]Consistent

----------------------------------------------------------------------------
(* C18 *)

\* C18: when the rectangle the host has for the container satisfies the
\* visibility predicate during the whole life of a component mounted
\* enabled, onChange is not invoked with false.
C18_NoSpuriousNotVisible ==
    HostVisible = "true"
        => \A i \in 1 .. Len(calls) : calls[i] # "false"

----------------------------------------------------------------------------
(* C19 *)

\* C19: while the component is mounted, a window change runs an evaluation
\* exactly when the component is not disabled.
C19_ResizeEvaluatesIffEnabled ==
    [][(phase = "mounted" /\ window' # window) => (EvalStep <=> Falsy(disabled))]_vars

----------------------------------------------------------------------------
(* C20 *)

\* C20: a measured rectangle of height 0 is classified not visible, wherever
\* it lies and whatever the window and the threshold.
C20_ZeroHeightNotVisible ==
    (MeasuredEval /\ hostRect.height = 0) => ev.visible = "false"

\* a rectangle of height 0 inside the window (0/0) was classified not visible
C20_Witness ==
    /\ MeasuredEval /\ hostRect.height = 0
    /\ Top > 0 /\ Top < window.height /\ Right > 0 /\ Right <= window.width
    /\ ev.visible = "false"

====
